---- MODULE Spec2Model ----
(***************************************************************************)
(* Model of src/random_number.py: a terminal number-guessing game.         *)
(*                                                                         *)
(* Text is modelled as sequences of one-character strings, so that         *)
(* str.strip(), str.lower() and int() are computed character by character. *)
(* One action is everything run_game does between two blocking input()     *)
(* calls.  `line` is the line the last step consumed from stdin and        *)
(* `printed` the lines the last step wrote to stdout (stdout itself is an  *)
(* unbounded append-only stream; only its last increment is kept).         *)
(* `wrong_guesses` is a history variable: the number of accepted guesses   *)
(* of the current round that differed from the target; the program does    *)
(* not read it.                                                            *)
(***************************************************************************)
EXTENDS Integers, Sequences, FiniteSets, TLC

VARIABLES pc, play_again, target_number, difficulty_input, difficulty,
          remaining_attempts, game_state, user_guess, result, line, printed,
          wrong_guesses

vars == <<pc, play_again, target_number, difficulty_input, difficulty,
          remaining_attempts, game_state, user_guess, result, line, printed,
          wrong_guesses>>

-----------------------------------------------------------------------------
(* Values *)

\* class Difficulty(Enum): member name |-> value
Difficulty == [NORMAL |-> 10, HARD |-> 5]

\* class GameState(Enum): member name |-> value
GameState == [PLAYING |-> 0, WON |-> 1, LOST |-> 2]

\* Optional[int]: None is the empty sequence, an int g is <<g>>
None == <<>>
Some(g) == <<g>>

\* A local of run_game that no statement has assigned yet.
Unassigned == -1
UnassignedName == "unassigned"
UnassignedStr == <<"unassigned">>

\* No line was read from stdin by the last step.
NoLine == <<"no line">>

\* One printed line: the message and the values interpolated in it.
Out(msg, args) == [msg |-> msg, args |-> args]

-----------------------------------------------------------------------------
(* Text primitives: str.strip, str.lower, int(str) *)

Whitespace == {" ", "\t"}

RECURSIVE LStrip(_)
LStrip(s) ==
    IF s # <<>> /\ Head(s) \in Whitespace THEN LStrip(Tail(s)) ELSE s

RECURSIVE RStrip(_)
RStrip(s) ==
    IF s # <<>> /\ s[Len(s)] \in Whitespace
    THEN RStrip(SubSeq(s, 1, Len(s) - 1))
    ELSE s

\* str.strip()
strip(s) == RStrip(LStrip(s))

UpperCase == <<"A","B","C","D","E","F","G","H","I","J","K","L","M",
               "N","O","P","Q","R","S","T","U","V","W","X","Y","Z">>
LowerCase == <<"a","b","c","d","e","f","g","h","i","j","k","l","m",
               "n","o","p","q","r","s","t","u","v","w","x","y","z">>

LowerChar(c) ==
    IF \E i \in 1..Len(UpperCase) : UpperCase[i] = c
    THEN LowerCase[CHOOSE i \in 1..Len(UpperCase) : UpperCase[i] = c]
    ELSE c

\* str.lower()
lower(s) == [i \in 1..Len(s) |-> LowerChar(s[i])]

DigitChars == <<"0","1","2","3","4","5","6","7","8","9">>
IsDigit(c) == \E d \in 1..10 : DigitChars[d] = c
DigitVal(c) == (CHOOSE d \in 1..10 : DigitChars[d] = c) - 1

\* The digits part of an int() literal: digits, single underscores only
\* between two digits.
IsDigitString(s) ==
    /\ s # <<>>
    /\ \A i \in 1..Len(s) : IsDigit(s[i]) \/ s[i] = "_"
    /\ IsDigit(s[1]) /\ IsDigit(s[Len(s)])
    /\ \A i \in 1..(Len(s) - 1) : ~(s[i] = "_" /\ s[i + 1] = "_")

RECURSIVE DigitsValue(_, _)
DigitsValue(s, acc) ==
    IF s = <<>> THEN acc
    ELSE IF Head(s) = "_" THEN DigitsValue(Tail(s), acc)
    ELSE DigitsValue(Tail(s), 10 * acc + DigitVal(Head(s)))

\* int(str): strip whitespace, optional sign, decimal digits.
\* ok = FALSE stands for the ValueError int() raises.
int(s) ==
    LET t == strip(s)
        signed == t # <<>> /\ Head(t) \in {"+", "-"}
        body == IF signed THEN Tail(t) ELSE t
    IN  IF IsDigitString(body)
        THEN [ok |-> TRUE,
              val |-> IF signed /\ Head(t) = "-"
                      THEN 0 - DigitsValue(body, 0)
                      ELSE DigitsValue(body, 0)]
        ELSE [ok |-> FALSE, val |-> 0]

\* list membership: x in xs
In(x, xs) == \E i \in 1..Len(xs) : xs[i] = x

-----------------------------------------------------------------------------
(* What the player may type *)

\* lines typed at the guess prompt
GuessInputs ==
    { <<"0">>, <<"1">>, <<"4","2">>, <<"5","0">>, <<"9","9">>,
      <<"1","0","0">>,
      <<"-","1">>, <<"1","0","1">>, <<"1","5","0">>,
      <<"a","b","c">>, <<>>, <<"4",".","5">>,
      <<" ","4","2"," ">>, <<"+","7">>, <<"-","0">>, <<"0","0","7">>,
      <<"4","_","2">>, <<"_","1">>, <<"4"," ","2">> }

\* lines typed at the difficulty and replay prompts
ChoiceInputs ==
    { <<"0">>, <<"1">>, <<"2">>, <<" ","1"," ">>, <<>>,
      <<"y">>, <<"n">>, <<"Y">>, <<"N">>, <<" ","Y"," ">>,
      <<"y","e","s">>, <<"a","b","c">> }

-----------------------------------------------------------------------------
(* Functions of the program *)

\* get_valid_input: one pass of its loop on the line typed.
\* ret = Retry: the loop prints the error and reads again.
Retry == <<"retry">>
\* get_valid_input without .strip()
get_valid_input_NoStrip(prompt, valid_options, typed) ==
    LET user_input == lower(typed)
    IN  IF In(user_input, valid_options)
        THEN [ret |-> user_input, out |-> <<>>]
        ELSE [ret |-> Retry,
              out |-> <<Out("invalid_option", <<>>), Out(prompt, <<>>)>>]

\* get_valid_input returning the line as typed, not the normalised one
get_valid_input_Raw(prompt, valid_options, typed) ==
    LET user_input == lower(strip(typed))
    IN  IF In(user_input, valid_options)
        THEN [ret |-> typed, out |-> <<>>]
        ELSE [ret |-> Retry,
              out |-> <<Out("invalid_option", <<>>), Out(prompt, <<>>)>>]

get_valid_input(prompt, valid_options, typed) ==
    LET user_input == lower(strip(typed))
    IN  IF In(user_input, valid_options)
        THEN [ret |-> user_input, out |-> <<>>]
        ELSE [ret |-> Retry,
              out |-> <<Out("invalid_option", <<>>), Out(prompt, <<>>)>>]

min_val_default == 0
max_val_default == 100

\* validate_guess_range with < for <=
validate_guess_range_Strict(guess, min_val, max_val) ==
    min_val < guess /\ guess < max_val

\* validate_guess_range without the upper bound
validate_guess_range_NoUpper(guess, min_val, max_val) ==
    min_val <= guess

validate_guess_range(guess, min_val, max_val) ==
    min_val <= guess /\ guess <= max_val

\* select_difficulty with the two branches swapped
select_difficulty_Swapped(choice) ==
    IF choice = <<"0">>
    THEN [ret |-> "HARD", out |-> <<Out("hard_selected", <<>>)>>]
    ELSE [ret |-> "NORMAL", out |-> <<Out("normal_selected", <<>>)>>]

select_difficulty(choice) ==
    IF choice = <<"0">>
    THEN [ret |-> "NORMAL", out |-> <<Out("normal_selected", <<>>)>>]
    ELSE [ret |-> "HARD", out |-> <<Out("hard_selected", <<>>)>>]

\* check_guess with >= for >: a guess equal to the target is 'too_high'
check_guess_Geq(target, guess) ==
    IF guess >= target THEN "too_high"
    ELSE IF guess < target THEN "too_low"
    ELSE "correct"

check_guess(target, guess) ==
    IF guess > target THEN "too_high"
    ELSE IF guess < target THEN "too_low"
    ELSE "correct"

\* number of iterations of `for _ in range(n)`
RangeLen(n) == IF n > 0 THEN n ELSE 0

\* show_life_hearts with range(remaining_attempts - 1)
show_life_hearts_OneLess(remaining) ==
    <<Out("hearts", <<RangeLen(remaining - 1)>>)>>

show_life_hearts(remaining) ==
    <<Out("hearts", <<RangeLen(remaining)>>)>>

\* show_game_result printing the target whatever the result
show_game_result_AlwaysReveal(target, state) ==
    IF state = "WON"
    THEN <<Out("reveal", <<target>>), Out("win", <<>>)>>
    ELSE IF state = "LOST"
    THEN <<Out("reveal", <<target>>), Out("lose", <<>>)>>
    ELSE <<>>

show_game_result(target, state) ==
    IF state = "WON" THEN <<Out("win", <<>>)>>
    ELSE IF state = "LOST"
    THEN <<Out("reveal", <<target>>), Out("lose", <<>>)>>
    ELSE <<>>

get_user_guess(typed) ==
    LET parsed == int(typed)
    IN  IF ~parsed.ok
        THEN [ret |-> None, out |-> <<Out("value_error", <<>>)>>]
        ELSE IF ~validate_guess_range(parsed.val, min_val_default,
                                      max_val_default)
        THEN [ret |-> None, out |-> <<Out("range_error", <<>>)>>]
        ELSE [ret |-> Some(parsed.val), out |-> <<>>]

-----------------------------------------------------------------------------
(* run_game *)

randint_lo == 0
randint_hi == 100

DifficultyOptions == << <<"0">>, <<"1">> >>
ReplayOptions == << <<"y">>, <<"n">> >>

\* The calls of lines 154, 175 and 198, tabulated over the lines the player
\* may type (the functions are pure in the line typed).
difficulty_reply ==
    [typed \in ChoiceInputs |->
        get_valid_input("prompt_difficulty", DifficultyOptions, typed)]
replay_reply ==
    [typed \in ChoiceInputs |->
        get_valid_input("prompt_replay", ReplayOptions, typed)]
guess_reply == [typed \in GuessInputs |-> get_user_guess(typed)]

Init ==
    /\ pc = "start"
    /\ play_again = UnassignedStr
    /\ target_number = Unassigned
    /\ difficulty_input = UnassignedStr
    /\ difficulty = UnassignedName
    /\ remaining_attempts = Unassigned
    /\ game_state = UnassignedName
    /\ user_guess = None
    /\ result = UnassignedName
    /\ line = NoLine
    /\ printed = <<>>
    /\ wrong_guesses = 0

\* lines 138-142: banner, play_again = 'y'
Start ==
    /\ pc = "start"
    /\ play_again' = <<"y">>
    /\ printed' = <<Out("banner", <<>>)>>
    /\ line' = NoLine
    /\ pc' = "loop"
    /\ UNCHANGED <<target_number, difficulty_input, difficulty,
                   remaining_attempts, game_state, user_guess, result,
                   wrong_guesses>>

\* NewRound with random.randint called once, before the replay loop
NewRound_KeepTarget ==
    /\ pc = "loop"
    /\ play_again = <<"y">>
    /\ \E t \in randint_lo..randint_hi :
          target_number' = IF target_number = Unassigned
                           THEN t
                           ELSE target_number
    /\ printed' = <<Out("new_game", <<>>), Out("select_difficulty", <<>>),
                    Out("prompt_difficulty", <<>>)>>
    /\ line' = NoLine
    /\ pc' = "difficulty"
    /\ UNCHANGED <<play_again, difficulty_input, difficulty,
                   remaining_attempts, game_state, user_guess, result,
                   wrong_guesses>>

\* lines 144-154: the replay loop is entered, the target is drawn and the
\* difficulty prompt is shown
NewRound ==
    /\ pc = "loop"
    /\ play_again = <<"y">>
    /\ \E t \in randint_lo..randint_hi : target_number' = t
    /\ printed' = <<Out("new_game", <<>>), Out("select_difficulty", <<>>),
                    Out("prompt_difficulty", <<>>)>>
    /\ line' = NoLine
    /\ pc' = "difficulty"
    /\ UNCHANGED <<play_again, difficulty_input, difficulty,
                   remaining_attempts, game_state, user_guess, result,
                   wrong_guesses>>

\* lines 144, 203-205: the replay loop is left
Goodbye ==
    /\ pc = "loop"
    /\ play_again # <<"y">>
    /\ printed' = <<Out("goodbye", <<>>)>>
    /\ line' = NoLine
    /\ pc' = "done"
    /\ UNCHANGED <<play_again, target_number, difficulty_input, difficulty,
                   remaining_attempts, game_state, user_guess, result,
                   wrong_guesses>>

\* lines 154-165: one line typed at the difficulty prompt
ReadDifficulty ==
    /\ pc = "difficulty"
    /\ \E typed \in ChoiceInputs :
        LET got == difficulty_reply[typed]
            sel == select_difficulty(got.ret)
        IN  /\ line' = typed
            /\ IF got.ret = Retry
               THEN /\ printed' = got.out
                    /\ pc' = "difficulty"
                    /\ UNCHANGED <<difficulty_input, difficulty,
                                   remaining_attempts, game_state,
                                   wrong_guesses>>
               ELSE /\ difficulty_input' = got.ret
                    /\ difficulty' = sel.ret
                    /\ remaining_attempts' = Difficulty[sel.ret]
                    /\ game_state' = "PLAYING"
                    /\ wrong_guesses' = 0
                    /\ printed' = sel.out \o
                           <<Out("guess_header", <<>>),
                             Out("you_have", <<Difficulty[sel.ret]>>)>>
                    /\ pc' = "turn"
    /\ UNCHANGED <<play_again, target_number, user_guess, result>>

\* Turn with random.randint called inside the turn loop
Turn_Redraw ==
    /\ pc = "turn"
    /\ game_state = "PLAYING"
    /\ \E t \in randint_lo..randint_hi : target_number' = t
    /\ printed' = show_life_hearts(remaining_attempts) \o
                      <<Out("prompt_guess", <<>>)>>
    /\ user_guess' = None
    /\ line' = NoLine
    /\ pc' = "guess"
    /\ UNCHANGED <<play_again, difficulty_input, difficulty,
                   remaining_attempts, game_state, result, wrong_guesses>>

\* Turn with `while True` for `while game_state == GameState.PLAYING`
Turn_NoGuard ==
    /\ pc = "turn"
    /\ printed' = show_life_hearts(remaining_attempts) \o
                      <<Out("prompt_guess", <<>>)>>
    /\ user_guess' = None
    /\ line' = NoLine
    /\ pc' = "guess"
    /\ UNCHANGED <<play_again, target_number, difficulty_input, difficulty,
                   remaining_attempts, game_state, result, wrong_guesses>>

\* lines 168-175: the turn loop is entered, the hearts are shown and the
\* guess prompt is shown
Turn ==
    /\ pc = "turn"
    /\ game_state = "PLAYING"
    /\ printed' = show_life_hearts(remaining_attempts) \o
                      <<Out("prompt_guess", <<>>)>>
    /\ user_guess' = None
    /\ line' = NoLine
    /\ pc' = "guess"
    /\ UNCHANGED <<play_again, target_number, difficulty_input, difficulty,
                   remaining_attempts, game_state, result, wrong_guesses>>

\* Resolve with the hint printed before the test for 0
Resolve_HintFirst(res, remaining, guess) ==
    IF res = "correct"
    THEN [game_state |-> "WON", remaining_attempts |-> remaining, out |-> <<>>]
    ELSE [game_state |-> IF remaining - 1 = 0 THEN "LOST" ELSE "PLAYING",
          remaining_attempts |-> remaining - 1,
          out |-> IF res = "too_high"
                  THEN <<Out("too_high", <<guess>>)>>
                  ELSE <<Out("too_low", <<guess>>)>>]

\* Resolve with the test for 0 made before the decrement
Resolve_TestBeforeDecrement(res, remaining, guess) ==
    IF res = "correct"
    THEN [game_state |-> "WON", remaining_attempts |-> remaining, out |-> <<>>]
    ELSE IF remaining = 0
    THEN [game_state |-> "LOST", remaining_attempts |-> remaining,
          out |-> <<>>]
    ELSE [game_state |-> "PLAYING", remaining_attempts |-> remaining - 1,
          out |-> IF res = "too_high"
                  THEN <<Out("too_high", <<guess>>)>>
                  ELSE <<Out("too_low", <<guess>>)>>]

\* Resolve with the decrement and the test for 0 made before the test for
\* a correct guess
Resolve_LossBeforeWin(res, remaining, guess) ==
    IF remaining - 1 = 0
    THEN [game_state |-> "LOST", remaining_attempts |-> remaining - 1,
          out |-> <<>>]
    ELSE IF res = "correct"
    THEN [game_state |-> "WON", remaining_attempts |-> remaining - 1,
          out |-> <<>>]
    ELSE [game_state |-> "PLAYING", remaining_attempts |-> remaining - 1,
          out |-> IF res = "too_high"
                  THEN <<Out("too_high", <<guess>>)>>
                  ELSE <<Out("too_low", <<guess>>)>>]

\* Resolve with `< 0` for `== 0`
Resolve_LostBelowZero(res, remaining, guess) ==
    IF res = "correct"
    THEN [game_state |-> "WON", remaining_attempts |-> remaining, out |-> <<>>]
    ELSE IF remaining - 1 < 0
    THEN [game_state |-> "LOST", remaining_attempts |-> remaining - 1,
          out |-> <<>>]
    ELSE [game_state |-> "PLAYING", remaining_attempts |-> remaining - 1,
          out |-> IF res = "too_high"
                  THEN <<Out("too_high", <<guess>>)>>
                  ELSE <<Out("too_low", <<guess>>)>>]

\* Resolve with `== 1` for `== 0`
Resolve_LostAtOne(res, remaining, guess) ==
    IF res = "correct"
    THEN [game_state |-> "WON", remaining_attempts |-> remaining, out |-> <<>>]
    ELSE IF remaining - 1 = 1
    THEN [game_state |-> "LOST", remaining_attempts |-> remaining - 1,
          out |-> <<>>]
    ELSE [game_state |-> "PLAYING", remaining_attempts |-> remaining - 1,
          out |-> IF res = "too_high"
                  THEN <<Out("too_high", <<guess>>)>>
                  ELSE <<Out("too_low", <<guess>>)>>]

\* lines 180-190: the turn is resolved
Resolve(res, remaining, guess) ==
    IF res = "correct"
    THEN [game_state |-> "WON", remaining_attempts |-> remaining, out |-> <<>>]
    ELSE IF remaining - 1 = 0
    THEN [game_state |-> "LOST", remaining_attempts |-> remaining - 1,
          out |-> <<>>]
    ELSE [game_state |-> "PLAYING", remaining_attempts |-> remaining - 1,
          out |-> IF res = "too_high"
                  THEN <<Out("too_high", <<guess>>)>>
                  ELSE <<Out("too_low", <<guess>>)>>]

\* lines 174-190: one line typed at the guess prompt
ReadGuess ==
    /\ pc = "guess"
    /\ \E typed \in GuessInputs :
        LET got == guess_reply[typed]
        IN  /\ line' = typed
            /\ user_guess' = got.ret
            /\ IF got.ret = None
               THEN /\ printed' = got.out \o <<Out("prompt_guess", <<>>)>>
                    /\ pc' = "guess"
                    /\ UNCHANGED <<result, game_state, remaining_attempts,
                                   wrong_guesses>>
               ELSE LET res == check_guess(target_number, got.ret[1])
                        nxt == Resolve(res, remaining_attempts, got.ret[1])
                    IN  /\ result' = res
                        /\ game_state' = nxt.game_state
                        /\ remaining_attempts' = nxt.remaining_attempts
                        /\ printed' = nxt.out
                        /\ wrong_guesses' = IF got.ret[1] = target_number
                                            THEN wrong_guesses
                                            ELSE wrong_guesses + 1
                        /\ pc' = "turn"
    /\ UNCHANGED <<play_again, target_number, difficulty_input, difficulty>>

\* lines 168, 192-198: the turn loop is left, the result is shown and the
\* replay prompt is shown
ShowResult ==
    /\ pc = "turn"
    /\ game_state # "PLAYING"
    /\ printed' = show_game_result(target_number, game_state) \o
                      <<Out("prompt_replay", <<>>)>>
    /\ line' = NoLine
    /\ pc' = "replay"
    /\ UNCHANGED <<play_again, target_number, difficulty_input, difficulty,
                   remaining_attempts, game_state, user_guess, result,
                   wrong_guesses>>

\* lines 198-201: one line typed at the replay prompt
ReadReplay ==
    /\ pc = "replay"
    /\ \E typed \in ChoiceInputs :
        LET got == replay_reply[typed]
        IN  /\ line' = typed
            /\ IF got.ret = Retry
               THEN /\ printed' = got.out
                    /\ pc' = "replay"
                    /\ UNCHANGED play_again
               ELSE /\ play_again' = got.ret
                    /\ printed' = <<>>
                    /\ pc' = "loop"
    /\ UNCHANGED <<target_number, difficulty_input, difficulty,
                   remaining_attempts, game_state, user_guess, result,
                   wrong_guesses>>

Next ==
    \/ Start
    \/ NewRound
    \/ Goodbye
    \/ ReadDifficulty
    \/ Turn
    \/ ReadGuess
    \/ ShowResult
    \/ ReadReplay

Spec == Init /\ [][Next]_vars

\* lines 174-178: get_user_guess returned an int, the inner loop is left
AcceptedGuess == ReadGuess /\ user_guess' # None

\* lines 174-175: get_user_guess returned None, the inner loop reads again
RejectedGuess == ReadGuess /\ user_guess' = None

\* run_game where the program goes on running when it is not waiting for a
\* line (Turn), and the player, asked for a guess, eventually types one that
\* is accepted
FairSpec == Spec /\ WF_vars(Turn) /\ WF_vars(AcceptedGuess)

-----------------------------------------------------------------------------
(* check_guess called on its own, on every target and guess of a range     *)
(* wider than the game's by GuessMargin on each side                       *)

GuessMargin == 3

ArgRange == (randint_lo - GuessMargin)..(randint_hi + GuessMargin)

InitCheckGuess ==
    /\ pc = "call_check_guess"
    /\ target_number \in ArgRange
    /\ user_guess \in {Some(g) : g \in ArgRange}
    /\ result = UnassignedName
    /\ play_again = UnassignedStr
    /\ difficulty_input = UnassignedStr
    /\ difficulty = UnassignedName
    /\ remaining_attempts = Unassigned
    /\ game_state = UnassignedName
    /\ line = NoLine
    /\ printed = <<>>
    /\ wrong_guesses = 0

CallCheckGuess ==
    /\ pc = "call_check_guess"
    /\ result' = check_guess(target_number, user_guess[1])
    /\ pc' = "return_check_guess"
    /\ UNCHANGED <<play_again, target_number, difficulty_input, difficulty,
                   remaining_attempts, game_state, user_guess, line, printed,
                   wrong_guesses>>

SpecCheckGuess == InitCheckGuess /\ [][CallCheckGuess]_vars

-----------------------------------------------------------------------------
(* Steps and states the properties speak of *)

\* a step of run_game that reads a guess and accepts it
AcceptedGuessStep == pc = "guess" /\ user_guess' # None

\* a step of run_game that reads a guess and rejects it
RejectedGuessStep == pc = "guess" /\ user_guess' = None

\* the step that initialises a round (difficulty chosen, lines 158-165)
RoundInitStep == pc = "difficulty" /\ pc' = "turn"

\* remaining_attempts and game_state have been assigned
InRound == game_state # UnassignedName

Terminal == {"WON", "LOST"}

\* the Session of the round is in use: from the round's initialisation
\* until its result has been shown
SessionLive == pc \in {"turn", "guess"}

\* the attempt budget of the round's difficulty
Budget == IF difficulty = "NORMAL" THEN 10 ELSE 5

\* the last step printed the message msg
Printed(msg) == \E i \in 1..Len(printed) : printed[i].msg = msg

\* the last step was the one that shows the result (lines 192-198)
ResultShown == pc = "replay" /\ line = NoLine

\* a step of run_game that reads a line at the difficulty or replay prompt
ChoiceStep == pc \in {"difficulty", "replay"}

\* the option list and the prompt of the get_valid_input call in progress
OptionsAt(at) == IF at = "difficulty" THEN DifficultyOptions ELSE ReplayOptions
PromptAt(at) == IF at = "difficulty" THEN "prompt_difficulty" ELSE "prompt_replay"

\* the hint lines the step being taken prints
HintsPrinted ==
    {printed'[i] : i \in {j \in 1..Len(printed') :
                            printed'[j].msg \in {"too_high", "too_low"}}}

\* a typed line that is no integer literal, or an integer outside [0,100]
NotAGuess(typed) ==
    \/ ~int(typed).ok
    \/ int(typed).val < 0
    \/ int(typed).val > 100

-----------------------------------------------------------------------------
(* Properties *)

\* C1: a round starts in PLAYING; the state changes only on an accepted
\* guess made in PLAYING, to WON iff the guess equals the target, to LOST iff
\* it is wrong and no attempt remains, and stays PLAYING iff it is wrong and
\* attempts remain; in WON or LOST no guess is read or evaluated and the
\* state changes only when the next round is initialised.
C1_StateMachine ==
    [][ /\ RoundInitStep => game_state' = "PLAYING"
        /\ AcceptedGuessStep =>
              /\ game_state = "PLAYING"
              /\ game_state' = "WON" <=> user_guess' = Some(target_number)
              /\ game_state' = "LOST" <=>
                     (user_guess' # Some(target_number)
                        /\ remaining_attempts' = 0)
              /\ game_state' = "PLAYING" <=>
                     (user_guess' # Some(target_number)
                        /\ remaining_attempts' > 0)
        /\ (~AcceptedGuessStep /\ ~RoundInitStep) => game_state' = game_state
        /\ game_state \in Terminal =>
              /\ pc # "guess"
              /\ user_guess' = user_guess /\ result' = result
              /\ (game_state' = game_state \/ RoundInitStep)
      ]_vars

\* a step was taken with the round already won
C1_Witness ==
    pc = "replay" /\ game_state = "WON" /\ line # NoLine

\* C2: an accepted guess that differs from the target leaves
\* remaining_attempts exactly one less, and remaining_attempts is never
\* negative in a round.
C2_AttemptsDecrease ==
    /\ [][ (AcceptedGuessStep /\ user_guess' # Some(target_number)) =>
              remaining_attempts' = remaining_attempts - 1 ]_vars
    /\ [](InRound => remaining_attempts >= 0)

\* the last attempt was used on a wrong guess
C2_Witness ==
    /\ pc = "turn" /\ user_guess # None
    /\ user_guess # Some(target_number)
    /\ remaining_attempts = 0

\* C3: check_guess(t, g) is 'correct' iff g = t, 'too_high' iff g > t,
\* 'too_low' iff g < t, and is one of the three.
C3_CheckGuess ==
    pc = "return_check_guess" =>
        /\ result \in {"correct", "too_high", "too_low"}
        /\ result = "correct" <=> user_guess[1] = target_number
        /\ result = "too_high" <=> user_guess[1] > target_number
        /\ result = "too_low" <=> user_guess[1] < target_number

\* check_guess returned on a guess just above the target
C3_Witness ==
    /\ pc = "return_check_guess"
    /\ user_guess[1] = target_number + 1
    /\ result = "too_high"

\* C4: every round, replayed or not, starts with 10 attempts when the
\* validated difficulty choice is '0' (NORMAL) and 5 when it is '1' (HARD).
C4_StartingAttempts ==
    [][ RoundInitStep =>
          /\ difficulty_input' \in {<<"0">>, <<"1">>}
          /\ difficulty_input' = <<"0">> =>
                (difficulty' = "NORMAL" /\ remaining_attempts' = 10)
          /\ difficulty_input' = <<"1">> =>
                (difficulty' = "HARD" /\ remaining_attempts' = 5) ]_vars

\* a replayed round (a guess of the round before is still in user_guess)
\* has just started on HARD
C4_Witness ==
    /\ pc = "turn" /\ game_state = "PLAYING" /\ Printed("you_have")
    /\ user_guess # None
    /\ difficulty_input = <<"1">> /\ remaining_attempts = 5

\* C5: a typed guess that is no integer, or an integer outside [0,100], is
\* not compared to the target, changes nothing of the round and is followed
\* by the guess prompt again, from every state the guess prompt is shown in
\* (so also after any number of rejected lines).
C5_RejectedGuess ==
    [][ /\ (pc = "guess" /\ NotAGuess(line')) =>
              /\ user_guess' = None
              /\ UNCHANGED <<result, remaining_attempts, game_state,
                             target_number, difficulty, wrong_guesses,
                             play_again>>
              /\ pc' = "guess"
              /\ printed'[Len(printed')] = Out("prompt_guess", <<>>)
        /\ (pc = "guess"
               /\ line' \in {<<"a","b","c">>, <<"1","5","0">>}) =>
              RejectedGuessStep
      ]_vars

\* "150" was typed and rejected, and the guess prompt is shown again
C5_Witness ==
    /\ pc = "guess" /\ line = <<"1","5","0">>
    /\ printed[1].msg = "range_error"
    /\ user_guess = None

\* C6: in PLAYING, an accepted guess equal to the target sets the state to
\* WON in that step and leaves remaining_attempts as it was, also on the
\* last attempt.
C6_CorrectGuessWins ==
    [][ (AcceptedGuessStep /\ game_state = "PLAYING"
           /\ user_guess' = Some(target_number)) =>
          (game_state' = "WON"
             /\ remaining_attempts' = remaining_attempts) ]_vars

\* the round was won on the last attempt
C6_Witness ==
    pc = "turn" /\ game_state = "WON" /\ remaining_attempts = 1

\* C7: with budget N (10 for NORMAL, 5 for HARD) the state is LOST exactly
\* when N accepted wrong guesses were made in the round; after fewer, and
\* no correct guess, it is PLAYING.
C7_LostOnNthWrong ==
    InRound =>
        /\ difficulty \in {"NORMAL", "HARD"}
        /\ wrong_guesses <= Budget
        /\ game_state = "LOST" <=> wrong_guesses = Budget
        /\ (wrong_guesses < Budget /\ game_state # "WON") =>
              game_state = "PLAYING"

\* a NORMAL round was lost on the tenth wrong guess
C7_Witness ==
    /\ pc = "turn" /\ game_state = "LOST"
    /\ difficulty = "NORMAL" /\ wrong_guesses = 10

\* C8: the target is printed only by the step that shows the result of a
\* lost round; that step prints the lose message and the target iff the
\* state is LOST and the win message alone iff it is WON; nothing of the
\* result is printed while the state is PLAYING.
C8_RevealOnlyOnLoss ==
    /\ (Printed("reveal") \/ Printed("win") \/ Printed("lose")) =>
          ResultShown
    /\ Printed("reveal") =>
          (game_state = "LOST"
             /\ printed[1] = Out("reveal", <<target_number>>))
    /\ ResultShown =>
          /\ game_state \in Terminal
          /\ game_state = "LOST" <=> Printed("reveal")
          /\ game_state = "LOST" <=> Printed("lose")
          /\ game_state = "WON" <=> Printed("win")
    /\ (InRound /\ game_state = "PLAYING") =>
          ~(Printed("reveal") \/ Printed("win") \/ Printed("lose"))

\* the result of a lost round was shown, with the target
C8_Witness ==
    /\ ResultShown /\ game_state = "LOST"
    /\ printed[1] = Out("reveal", <<target_number>>)

\* C9: the replay prompt is shown only in WON or LOST; the program ends only
\* from the replay loop's test with the validated answer 'n', and then it
\* does end; with 'y' the next round starts; it never ends inside a round.
C9_Replay ==
    /\ [](pc = "replay" => game_state \in Terminal)
    /\ [](pc = "done" =>
            (play_again = <<"n">> /\ game_state \in Terminal))
    /\ [][ /\ pc' = "done" => (pc = "loop" /\ play_again = <<"n">>)
           /\ (pc = "loop" /\ play_again = <<"n">>) => pc' = "done"
           /\ (pc = "loop" /\ play_again = <<"y">>) => pc' = "difficulty"
           /\ (pc = "replay" /\ pc' = "loop") =>
                 (play_again' \in {<<"y">>, <<"n">>}
                    /\ play_again' = lower(strip(line')))
         ]_vars

\* the program has ended after a lost round
C9_Witness ==
    pc = "done" /\ play_again = <<"n">> /\ game_state = "LOST"

\* C10 as stated: remaining_attempts > 0 in every state of a Session.
C10_Original ==
    SessionLive => remaining_attempts > 0

\* C10 as amended: in every state of a Session remaining_attempts is a
\* natural number, greater than 0 while the state is PLAYING or WON and 0
\* when the state is LOST.
C10_Amended ==
    SessionLive =>
        /\ remaining_attempts \in Nat
        /\ game_state \in {"PLAYING", "WON"} => remaining_attempts > 0
        /\ game_state = "LOST" => remaining_attempts = 0

\* the Session of a lost round, before its result is shown
C10_Witness ==
    SessionLive /\ game_state = "LOST" /\ remaining_attempts = 0

\* C11: at the difficulty and replay prompts a typed line is accepted iff,
\* trimmed and lower-cased, it is one of the options, and the value returned
\* is that normalised line (' Y ' gives 'y'); any other line changes nothing
\* of the game and is followed by the same prompt, from every state the
\* prompt is shown in; select_difficulty only ever gets '0' or '1'.
C11_ValidatedChoice ==
    /\ [][ ChoiceStep =>
             IF In(lower(strip(line')), OptionsAt(pc))
             THEN /\ pc' # pc
                  /\ pc = "difficulty" =>
                        (difficulty_input' = lower(strip(line'))
                           /\ In(difficulty_input', DifficultyOptions))
                  /\ pc = "replay" =>
                        (play_again' = lower(strip(line'))
                           /\ In(play_again', ReplayOptions))
             ELSE /\ pc' = pc
                  /\ UNCHANGED <<play_again, target_number, difficulty_input,
                                 difficulty, remaining_attempts, game_state,
                                 user_guess, result, wrong_guesses>>
                  /\ printed'[Len(printed')] = Out(PromptAt(pc), <<>>)
         ]_vars
    /\ [][ (pc = "replay" /\ line' = <<" ", "Y", " ">>) =>
             play_again' = <<"y">> ]_vars
    /\ [](difficulty_input \in {UnassignedStr, <<"0">>, <<"1">>})

\* ' Y ' was typed at the replay prompt and taken as 'y'
C11_Witness ==
    pc = "loop" /\ line = <<" ", "Y", " ">> /\ play_again = <<"y">>

\* C12: the target is an integer of [0,100]; it changes only in the step
\* that starts a round, and the difficulty only in the step that initialises
\* it; a step that reads a guess, accepted or rejected, changes neither;
\* remaining_attempts and the state change only when a round is initialised
\* or an accepted guess is resolved.
C12_TargetFixed ==
    /\ [](target_number # Unassigned => target_number \in 0..100)
    /\ [][ /\ target_number' # target_number =>
                 (pc = "loop" /\ pc' = "difficulty")
           /\ (difficulty' # difficulty
                  \/ difficulty_input' # difficulty_input) => RoundInitStep
           /\ pc = "guess" =>
                 UNCHANGED <<target_number, difficulty, difficulty_input>>
           /\ (remaining_attempts' # remaining_attempts
                  \/ game_state' # game_state) =>
                 (RoundInitStep \/ AcceptedGuessStep)
         ]_vars

\* after a wrong guess and a rejected line the target is still 100
C12_Witness ==
    /\ pc = "guess" /\ line = <<"a", "b", "c">>
    /\ wrong_guesses >= 1 /\ target_number = 100

\* C13: if the player, whenever asked for a guess, eventually types an
\* accepted one, a round in PLAYING reaches WON or LOST; a round takes at
\* most as many accepted guesses as its budget; and at the guess prompt a
\* rejected line, which leads back to the same prompt with the round as it
\* was, is always possible (there is no retry limit).
C13_RoundEnds ==
    /\ (SessionLive /\ game_state = "PLAYING") ~> (game_state \in Terminal)
    /\ [](InRound =>
            wrong_guesses + (IF game_state = "WON" THEN 1 ELSE 0) <= Budget)
    /\ [](pc = "guess" =>
            ENABLED (RejectedGuess /\ pc' = "guess"
                       /\ UNCHANGED <<game_state, remaining_attempts,
                                      wrong_guesses>>))

\* a HARD round ended on its fifth accepted guess
C13_Witness ==
    /\ pc = "turn" /\ game_state = "WON" /\ difficulty = "HARD"
    /\ wrong_guesses = 4 /\ remaining_attempts = 1

\* C14: whatever the round before left behind, a round can start with any
\* target of [0,100] and either difficulty, and its initialisation sets the
\* state to PLAYING, the difficulty to the one typed for this round and
\* remaining_attempts to that difficulty's full budget.
C14_FreshRound ==
    /\ [][ RoundInitStep =>
             /\ game_state' = "PLAYING"
             /\ wrong_guesses' = 0
             /\ In(lower(strip(line')), DifficultyOptions)
             /\ difficulty' = IF lower(strip(line')) = <<"0">>
                              THEN "NORMAL" ELSE "HARD"
             /\ remaining_attempts' = IF lower(strip(line')) = <<"0">>
                                      THEN 10 ELSE 5
         ]_vars
    /\ []((pc = "loop" /\ play_again = <<"y">>) =>
            \A t \in 0..100 : ENABLED (NewRound /\ target_number' = t))
    /\ [](pc = "difficulty" =>
            \A c \in {<<"0">>, <<"1">>} :
                ENABLED (ReadDifficulty /\ difficulty_input' = c))

\* a round has just started on NORMAL after a lost round (the last result
\* of that round is still in `result`)
C14_Witness ==
    /\ pc = "turn" /\ game_state = "PLAYING" /\ Printed("you_have")
    /\ result \in {"too_high", "too_low"}
    /\ wrong_guesses = 0 /\ remaining_attempts = 10

\* C15: a guess that is compared to the target is the integer the typed
\* line denotes and lies in [0,100]; "0" and "100" are accepted, and cost an
\* attempt when wrong; "-1" and "101" are rejected and cost nothing.
C15_GuessInRange ==
    [][ /\ AcceptedGuessStep =>
              /\ int(line').ok
              /\ user_guess' = Some(int(line').val)
              /\ 0 <= user_guess'[1] /\ user_guess'[1] <= 100
              /\ result' = check_guess(target_number, user_guess'[1])
        /\ (pc = "guess" /\ line' \in {<<"0">>, <<"1","0","0">>}) =>
              /\ AcceptedGuessStep
              /\ user_guess' = Some(IF line' = <<"0">> THEN 0 ELSE 100)
              /\ user_guess' # Some(target_number) =>
                    remaining_attempts' = remaining_attempts - 1
        /\ (pc = "guess" /\ line' \in {<<"-","1">>, <<"1","0","1">>}) =>
              /\ RejectedGuessStep
              /\ UNCHANGED <<remaining_attempts, game_state, result>>
      ]_vars

\* "100" was typed, accepted and found too high
C15_Witness ==
    /\ pc = "turn" /\ line = <<"1","0","0">>
    /\ user_guess = Some(100) /\ result = "too_high"
    /\ wrong_guesses >= 1

\* C16: once a round is initialised, the state is LOST iff
\* remaining_attempts is 0, and in PLAYING or WON remaining_attempts is
\* between 1 and the round's budget.
C16_LostIffZero ==
    InRound =>
        /\ game_state \in {"PLAYING", "WON", "LOST"}
        /\ game_state = "LOST" <=> remaining_attempts = 0
        /\ game_state \in {"PLAYING", "WON"} =>
              (1 <= remaining_attempts /\ remaining_attempts <= Budget)

\* a NORMAL round was won on the first guess, with the whole budget left
C16_Witness ==
    /\ pc = "turn" /\ game_state = "WON"
    /\ difficulty = "NORMAL" /\ remaining_attempts = 10

\* C17: hints are printed only by a step that accepts a guess; such a step
\* prints one hint iff the state is PLAYING after it, 'too high' with the
\* guess iff the guess is above the target and 'too low' iff below; a
\* correct guess and the wrong guess that uses the last attempt print none.
C17_Hints ==
    [][ /\ HintsPrinted # {} => AcceptedGuessStep
        /\ AcceptedGuessStep =>
              /\ HintsPrinted # {} <=> game_state' = "PLAYING"
              /\ game_state' = "PLAYING" =>
                    /\ user_guess' # Some(target_number)
                    /\ printed' =
                          IF user_guess'[1] > target_number
                          THEN <<Out("too_high", user_guess')>>
                          ELSE <<Out("too_low", user_guess')>>
              /\ user_guess' = Some(target_number) => HintsPrinted = {}
              /\ (user_guess' # Some(target_number)
                    /\ remaining_attempts = 1) => HintsPrinted = {}
      ]_vars

\* the last attempt was used on a wrong guess and no hint was printed
C17_Witness ==
    /\ pc = "turn" /\ game_state = "LOST" /\ result = "too_low"
    /\ printed = <<>>

\* C18: the hearts are printed only by the step that opens a turn, in
\* state PLAYING, as one line of remaining_attempts >= 1 glyphs followed by
\* the guess prompt; every turn opens so; a rejected line prints no hearts.
C18_Hearts ==
    /\ [](Printed("hearts") =>
            /\ pc = "guess" /\ line = NoLine
            /\ game_state = "PLAYING"
            /\ remaining_attempts >= 1
            /\ printed = <<Out("hearts", <<remaining_attempts>>),
                           Out("prompt_guess", <<>>)>>)
    /\ [][ /\ (pc = "turn" /\ pc' = "guess") =>
                 printed' = <<Out("hearts", <<remaining_attempts'>>),
                              Out("prompt_guess", <<>>)>>
           /\ pc = "guess" =>
                 \A i \in 1..Len(printed') : printed'[i].msg # "hearts"
         ]_vars

\* the last turn of a round opens with one heart
C18_Witness ==
    /\ pc = "guess" /\ line = NoLine /\ remaining_attempts = 1
    /\ printed[1] = Out("hearts", <<1>>)

====
